---- MODULE Spec2Model ----
(***************************************************************************)
(* A model of gdax-client: the authenticated (private) and the public REST *)
(* clients, the order encoding (Serialize for NewOrder / Side) and the     *)
(* hand-written enum decoders (Deserialize for Side, EntryType, HoldType). *)
(*                                                                         *)
(* Text that the program inspects character by character (enum strings,    *)
(* the base64 secret) is a sequence of one-character strings; text that it *)
(* only concatenates (paths, timestamps, request bodies) is a TLA+ string; *)
(* a response body is a sequence of JSON tokens, delivered in chunks.      *)
(***************************************************************************)
EXTENDS Integers, Sequences, FiniteSets, TLC

VARIABLES
    secret,     \* private::Client.secret, fixed at Client::new
    now,        \* the clock read by get_time().sec
    pc,         \* position of the current invocation: idle | waiting | done
    call,       \* the invocation in progress (client, method, path, body, ...)
    sent,       \* the requests handed to the transport by this invocation
    response,   \* what the transport delivered for this invocation
    result,     \* what the invocation returned (or how it aborted)
    input,      \* the JSON string handed to an enum decoder
    decoded     \* the decoder's outcome

vars == <<secret, now, pc, call, sent, response, result, input, decoded>>

None == [kind |-> "none", value |-> <<>>]

Ok(v)      == [kind |-> "Ok", value |-> v]
Err(k, v)  == [kind |-> k, value |-> v]
Panic(msg) == [kind |-> "panic", value |-> msg]

-----------------------------------------------------------------------------
(* Character-level text                                                    *)

Letters  == <<"a","b","c","d","e","f","g","h","i","j","k","l","m",
              "n","o","p","q","r","s","t","u","v","w","x","y","z">>
Capitals == <<"A","B","C","D","E","F","G","H","I","J","K","L","M",
              "N","O","P","Q","R","S","T","U","V","W","X","Y","Z">>

\* char::to_lowercase on the ASCII letters; every other character is kept
to_lowercase_char(c) ==
    IF \E i \in 1..Len(Capitals) : Capitals[i] = c
    THEN Letters[CHOOSE i \in 1..Len(Capitals) : Capitals[i] = c]
    ELSE c

to_uppercase_char(c) ==
    IF \E i \in 1..Len(Letters) : Letters[i] = c
    THEN Capitals[CHOOSE i \in 1..Len(Letters) : Letters[i] = c]
    ELSE c

\* str::to_lowercase
to_lowercase(s) == [i \in 1..Len(s) |-> to_lowercase_char(s[i])]

-----------------------------------------------------------------------------
(* Deserialize for Side, EntryType, HoldType                               *)

\* Visitor::expecting of SideVisitor, EntryTypeVisitor and HoldTypeVisitor:
\* the body is unimplemented!(), which panics when it is called.
expecting == Panic("not yet implemented")

\* serde::de::Error::invalid_value(unexp, &visitor), as serde_json builds it:
\* the error message "invalid value: {unexp}, expected {exp}" is formatted
\* eagerly and {exp} is rendered by the visitor's expecting().
invalid_value(unexp) ==
    IF expecting.kind = "panic"
    THEN expecting
    ELSE Err("Json", <<"invalid value", unexp, expecting>>)

NotDecoded == <<"none", None>>

\* SideVisitor::visit_str
SideVisitStr(v) ==
    LET l == to_lowercase(v) IN
    CASE l = <<"b","u","y">>     -> Ok("Buy")
      [] l = <<"s","e","l","l">> -> Ok("Sell")
      [] OTHER                   -> invalid_value("Invalid side")

\* EntryTypeVisitor::visit_str
EntryTypeVisitStr(v) ==
    LET l == to_lowercase(v) IN
    CASE l = <<"f","e","e">>                         -> Ok("Fee")
      [] l = <<"m","a","t","c","h">>                 -> Ok("Match")
      [] l = <<"t","r","a","n","s","f","e","r">>     -> Ok("Transfer")
      [] OTHER -> invalid_value("Invalid entry type")

\* HoldTypeVisitor::visit_str
HoldTypeVisitStr(v) ==
    LET l == to_lowercase(v) IN
    CASE l = <<"o","r","d","e","r">>                 -> Ok("Order")
      [] l = <<"t","r","a","n","s","f","e","r">>     -> Ok("Transfer")
      [] OTHER -> invalid_value("Invalid hold type")

-----------------------------------------------------------------------------
(* Orders and their encoding                                               *)

MaxAmount == 1

Sides    == {"Buy", "Sell"}
Products == {"BTC-USD", "ETH-USD"}
\* f64 amounts with an integral value; 1.0 and 100.0 are the documented example
Amounts  == (1..MaxAmount) \cup {100}

\* SizeOrFunds::Size(x) | SizeOrFunds::Funds(x)
SizeOrFunds == [tag : {"Size", "Funds"}, amount : Amounts]

\* NewOrder::limit(side, product_id, size, price)
limit(side, product_id, size, price) ==
    [variant |-> "Limit", side |-> side, product_id |-> product_id,
     price |-> price, size |-> size]

\* NewOrder::market(side, product_id, size_or_funds)
market(side, product_id, size_or_funds) ==
    [variant |-> "Market", side |-> side, product_id |-> product_id,
     size_or_funds |-> size_or_funds]

\* NewOrder::stop(side, product_id, size_or_funds, price)
stop(side, product_id, size_or_funds, price) ==
    [variant |-> "Stop", side |-> side, product_id |-> product_id,
     price |-> price, size_or_funds |-> size_or_funds]

Orders ==
    {limit(s, p, z, c) : s \in Sides, p \in Products, z \in Amounts, c \in Amounts}
    \cup {market(s, p, sf) : s \in Sides, p \in Products, sf \in SizeOrFunds}
    \cup {stop(s, p, sf, c) : s \in Sides, p \in Products, sf \in SizeOrFunds,
                              c \in Amounts}

\* A JSON member is <<key, value>>; a value is a string or an f64 number.
Str(s) == [t |-> "str", v |-> s]
Num(x) == [t |-> "num", v |-> ToString(x) \o ".0"]

\* impl Serialize for Side
SerializeSide(side) ==
    CASE side = "Buy"  -> Str("buy")
      [] side = "Sell" -> Str("sell")

\* The derived Serialize of the local struct LimitOrder: one member per
\* field, named after the field (the rename of t is commented out).
LimitOrderFields(side, product_id, price, size) ==
    << <<"t", Str("limit")>>, <<"side", SerializeSide(side)>>,
       <<"product_id", Str(product_id)>>, <<"price", Num(price)>>,
       <<"size", Num(size)>> >>

\* struct MarketOrder of the Market / SizeOrFunds::Size arm
MarketSizeFields(side, product_id, size) ==
    << <<"t", Str("market")>>, <<"side", SerializeSide(side)>>,
       <<"product_id", Str(product_id)>>, <<"size", Num(size)>> >>

\* The Funds arm emitting the size member as well
MarketFundsFieldsBothKeys(side, product_id, funds) ==
    << <<"t", Str("market")>>, <<"side", SerializeSide(side)>>,
       <<"product_id", Str(product_id)>>, <<"size", Num(funds)>>,
       <<"funds", Num(funds)>> >>

\* struct MarketOrder of the Market / SizeOrFunds::Funds arm
MarketFundsFields(side, product_id, funds) ==
    << <<"t", Str("market")>>, <<"side", SerializeSide(side)>>,
       <<"product_id", Str(product_id)>>, <<"funds", Num(funds)>> >>

\* struct StopOrder of the Stop / SizeOrFunds::Size arm
StopSizeFields(side, product_id, price, size) ==
    << <<"t", Str("stop")>>, <<"side", SerializeSide(side)>>,
       <<"product_id", Str(product_id)>>, <<"price", Num(price)>>,
       <<"size", Num(size)>> >>

\* struct StopOrder of the Stop / SizeOrFunds::Funds arm
StopFundsFields(side, product_id, price, funds) ==
    << <<"t", Str("stop")>>, <<"side", SerializeSide(side)>>,
       <<"product_id", Str(product_id)>>, <<"price", Num(price)>>,
       <<"funds", Num(funds)>> >>

\* impl Serialize for NewOrder: the match on the variant
SerializeNewOrder(o) ==
    CASE o.variant = "Limit" ->
            LimitOrderFields(o.side, o.product_id, o.price, o.size)
      [] o.variant = "Market" /\ o.size_or_funds.tag = "Size" ->
            MarketSizeFields(o.side, o.product_id, o.size_or_funds.amount)
      [] o.variant = "Market" /\ o.size_or_funds.tag = "Funds" ->
            MarketFundsFields(o.side, o.product_id, o.size_or_funds.amount)
      [] o.variant = "Stop" /\ o.size_or_funds.tag = "Size" ->
            StopSizeFields(o.side, o.product_id, o.price, o.size_or_funds.amount)
      [] o.variant = "Stop" /\ o.size_or_funds.tag = "Funds" ->
            StopFundsFields(o.side, o.product_id, o.price, o.size_or_funds.amount)

Quote(s) == "\"" \o s \o "\""

RenderValue(v) == IF v.t = "str" THEN Quote(v.v) ELSE v.v

RECURSIVE RenderMembers(_)
RenderMembers(fields) ==
    IF fields = <<>> THEN ""
    ELSE Quote(fields[1][1]) \o ":" \o RenderValue(fields[1][2])
         \o (IF Len(fields) = 1 THEN "" ELSE ",")
         \o RenderMembers(Tail(fields))

\* serde_json::ser::to_string of a flat struct: {"k":v,...} in field order
to_string(fields) == "{" \o RenderMembers(fields) \o "}"

-----------------------------------------------------------------------------
(* Signer and credential headers                                           *)

MaxTime == 1

PRIVATE_API_URL == "https://api.gdax.com"
PUBLIC_API_URL  == "https://api.gdax.com"

Digits == <<"0","1","2","3","4","5","6","7","8","9">>

\* The base64 alphabet in value order: A-Z a-z 0-9 + /
Base64Alphabet == Capitals \o Letters \o Digits \o <<"+", "/">>

Base64Value(c) == (CHOOSE i \in 1..Len(Base64Alphabet) : Base64Alphabet[i] = c) - 1

IsBase64Char(c) == \E i \in 1..Len(Base64Alphabet) : Base64Alphabet[i] = c

\* The number of trailing '=' of s
RECURSIVE PaddingOf(_)
PaddingOf(s) ==
    IF s # <<>> /\ s[Len(s)] = "=" THEN 1 + PaddingOf(SubSeq(s, 1, Len(s) - 1))
    ELSE 0

\* The bytes of one group of four symbols, the last pad of them being '='
GroupBytes(g, pad) ==
    LET v(i) == IF i > 4 - pad THEN 0 ELSE Base64Value(g[i])
        n    == v(1) * 262144 + v(2) * 4096 + v(3) * 64 + v(4)
    IN  SubSeq(<<n \div 65536, (n \div 256) % 256, n % 256>>, 1, 3 - pad)

RECURSIVE DecodeGroups(_, _)
DecodeGroups(s, pad) ==
    IF s = <<>> THEN <<>>
    ELSE GroupBytes(SubSeq(s, 1, 4), IF Len(s) = 4 THEN pad ELSE 0)
         \o DecodeGroups(SubSeq(s, 5, Len(s)), pad)

\* base64::decode (standard alphabet, padded): an error for a byte outside
\* the alphabet, for padding that is not one or two trailing '=', and for a
\* length that is not a multiple of four. Secrets holds no unpadded text of
\* length 2 or 3 modulo 4, which releases of the crate treat differently.
Base64Decode(s) ==
    LET pad  == PaddingOf(s)
        data == SubSeq(s, 1, Len(s) - pad)
    IN  IF /\ \A i \in 1..Len(data) : IsBase64Char(data[i])
           /\ pad <= 2
           /\ Len(s) % 4 = 0
           /\ (pad > 0 => Len(data) > 0)
        THEN Ok(DecodeGroups(s, pad))
        ELSE Err("DecodeError", <<>>)

\* The base64 error reported as a JSON decode error
FromBase64ErrorAsJson == Err("Json", <<>>)

\* impl From<base64::DecodeError> for Error
FromBase64Error == Err("InvalidSecretKey", <<>>)

\* impl From<hyper::Error> for Error
FromHyperError(e) == Err("Hyper", e)

\* impl From<serde_json::Error> for Error
FromJsonError(e) == Err("Json", e)

RECURSIVE Concat(_)
\* The string made of the characters of s
Concat(s) == IF s = <<>> THEN "" ELSE s[1] \o Concat(Tail(s))

\* str::to_uppercase of a method name
to_uppercase(s) == Concat([i \in 1..Len(s) |-> to_uppercase_char(s[i])])

GET    == <<"G","E","T">>
POST   == <<"P","O","S","T">>
DELETE == <<"D","E","L","E","T","E">>

\* Hmac::new(Sha256::new(), key), input(what), result().code(): the MAC is
\* kept symbolic, a value determined by the key and the message.
HmacSha256(key, what) == [key |-> key, what |-> what]

\* base64::encode of the MAC bytes, kept symbolic
Base64Encode(mac) == [base64 |-> mac]

\* The signing message with the method put before the timestamp
signatureMethodFirst(sec, path, body, timestamp, method) ==
    LET key == Base64Decode(sec) IN
    IF key.kind # "Ok" THEN FromBase64Error
    ELSE LET what == to_uppercase(method) \o timestamp \o path \o body
         IN  Ok(Base64Encode(HmacSha256(key.value, what)))

\* Client::signature
signature(sec, path, body, timestamp, method) ==
    LET key == Base64Decode(sec) IN
    IF key.kind # "Ok" THEN FromBase64Error
    ELSE LET what == timestamp \o to_uppercase(method) \o path \o body
         IN  Ok(Base64Encode(HmacSha256(key.value, what)))

CB_KEY        == "key"
CB_PASSPHRASE == "passphrase"

\* The clock read a second time, a second later, for the timestamp header
get_headersClockReadTwice(sec, clock, path, body, method) ==
    LET timestamp == ToString(clock)
        sig       == signature(sec, path, body, timestamp, method)
    IN  IF sig.kind # "Ok" THEN sig
        ELSE Ok([accept     |-> "application/json",
                 user_agent |-> "rust-gdax-client/1.1.0",
                 key        |-> CB_KEY,
                 sign       |-> sig.value,
                 passphrase |-> CB_PASSPHRASE,
                 timestamp  |-> ToString(clock + 1)])

\* Client::get_headers; clock is the value get_time().sec returns. The
\* members stand for the headers Accept, User-Agent, CB-ACCESS-KEY,
\* CB-ACCESS-SIGN, CB-ACCESS-PASSPHRASE and CB-ACCESS-TIMESTAMP.
get_headers(sec, clock, path, body, method) ==
    LET timestamp == ToString(clock)
        sig       == signature(sec, path, body, timestamp, method)
    IN  IF sig.kind # "Ok" THEN sig
        ELSE Ok([accept     |-> "application/json",
                 user_agent |-> "rust-gdax-client/1.1.0",
                 key        |-> CB_KEY,
                 sign       |-> sig.value,
                 passphrase |-> CB_PASSPHRASE,
                 timestamp  |-> timestamp])

-----------------------------------------------------------------------------
(* Responses: a body is a sequence of JSON tokens, delivered in chunks     *)

MaxElems  == 1
MaxChunks == 2

Uuids == {"00000000-0000-0000-0000-000000000001",
          "00000000-0000-0000-0000-000000000002"}

LB    == "["
RB    == "]"
COMMA == ","
\* a JSON object that has every field of the struct the call expects;
\* its id member is ObjId
OBJ   == "{\"id\":\"00000000-0000-0000-0000-000000000001\",...}"
ObjId == "00000000-0000-0000-0000-000000000001"
\* the exchange's error object
MSG   == "{\"message\":\"Invalid API Key\"}"
\* a byte that is not valid UTF-8
BAD   == "\\xFF"

IdTokens == {Quote(u) : u \in Uuids}

RECURSIVE Join(_, _)
\* [T]::join(sep) on token or string sequences: the elements, sep between
Join(elems, sep) ==
    IF elems = <<>> THEN <<>>
    ELSE IF Len(elems) = 1 THEN <<elems[1]>>
    ELSE <<elems[1], sep>> \o Join(Tail(elems), sep)

SeqsUpTo(S, n) == UNION {[1..k -> S] : k \in 0..n}

ArrayDoc(elems) == <<LB>> \o Join(elems, COMMA) \o <<RB>>

\* The bodies the exchange may answer with
Documents ==
    {<<>>, <<OBJ>>, <<MSG>>, <<BAD>>}
    \cup {ArrayDoc(e) : e \in SeqsUpTo({Quote(ObjId)}, MaxElems)}
    \cup {ArrayDoc(e) : e \in SeqsUpTo({OBJ}, MaxElems)}

RECURSIVE SplitAt(_, _)
\* doc cut after each position of cuts
SplitAt(doc, cuts) ==
    IF cuts = {} THEN (IF doc = <<>> THEN <<>> ELSE <<doc>>)
    ELSE LET c == CHOOSE x \in cuts : \A y \in cuts : x >= y
         IN  SplitAt(SubSeq(doc, 1, c), cuts \ {c})
             \o <<SubSeq(doc, c + 1, Len(doc))>>

\* The ways the transport may deliver doc: in 1..MaxChunks non-empty chunks
Chunkings(doc) ==
    {SplitAt(doc, cuts) :
        cuts \in {c \in SUBSET (1..(Len(doc) - 1)) : Cardinality(c) < MaxChunks}}

\* A body stream: the chunks received and whether receiving then failed
StreamsOf(ch) ==
    {[chunks |-> ch, failed |-> f] : f \in BOOLEAN}
    \cup {[chunks |-> SubSeq(ch, 1, k), failed |-> TRUE] : k \in 0..(Len(ch) - 1)}

Streams == UNION {StreamsOf(ch) : ch \in UNION {Chunkings(d) : d \in Documents}}

Statuses == {200, 299, 300, 404}

\* A response: "error" when no response head arrived (the connection failed),
\* else the status, the chunks of the body that arrived, and whether
\* receiving the body then failed. NoResponse: the transport has not answered.
NoResponse == [outcome |-> "none", status |-> 0, chunks |-> <<>>, failed |-> FALSE]

ConnectError == [outcome |-> "error", status |-> 0, chunks |-> <<>>, failed |-> FALSE]

RECURSIVE Flatten(_)
\* All the chunks, concatenated
Flatten(chunks) ==
    IF chunks = <<>> THEN <<>> ELSE chunks[1] \o Flatten(Tail(chunks))

\* String::from_utf8(bytes) succeeds
Utf8Valid(chunk) == \A i \in 1..Len(chunk) : chunk[i] # BAD

\* StatusCode::is_success
is_success(status) == 200 <= status /\ status < 300

\* The element tokens of the expected type: a quoted uuid, or an object
ElemTokens(of) == IF of = "id" THEN IdTokens ELSE {OBJ}

\* The typed value of an element token
ElemValue(of, tok) ==
    IF of = "id" THEN CHOOSE u \in Uuids : Quote(u) = tok ELSE tok

\* serde_json::de::from_reader::<T>: T is one element or a Vec of elements.
\* Empty or truncated text, a token of another type and trailing text are
\* errors.
from_reader(content, ty) ==
    IF ty.shape = "one"
    THEN IF Len(content) = 1 /\ content[1] \in ElemTokens(ty.of)
         THEN Ok(ElemValue(ty.of, content[1]))
         ELSE FromJsonError("syntax or data")
    ELSE LET n     == Len(content)
             inner == SubSeq(content, 2, n - 1)
         IN  IF /\ n >= 2
                /\ content[1] = LB
                /\ content[n] = RB
                /\ (inner # <<>> => Len(inner) % 2 = 1)
                /\ \A i \in 1..Len(inner) :
                      IF i % 2 = 1 THEN inner[i] \in ElemTokens(ty.of)
                      ELSE inner[i] = COMMA
             THEN Ok([k \in 1..((Len(inner) + 1) \div 2) |->
                         ElemValue(ty.of, inner[2 * k - 1])])
             ELSE FromJsonError("syntax or data")

\* private get_and_decode / post_and_decode / delete_and_decode, from
\* req.wait() on: the first item of the body stream is the content
PrivateDecode(resp, ty) ==
    IF resp.outcome = "error" THEN FromHyperError("request failed")
    ELSE IF resp.chunks = <<>> /\ resp.failed
         THEN Panic("unwrap on an Err value")
    ELSE IF resp.chunks # <<>> /\ ~Utf8Valid(resp.chunks[1])
         THEN Panic("unwrap on an Err value: FromUtf8Error")
    ELSE LET content == IF resp.chunks = <<>> THEN <<>> ELSE resp.chunks[1]
         IN  IF ~is_success(resp.status)
             THEN Err("Api", content)
             ELSE from_reader(content, ty)

\* public get_and_decode, from t.perform() on: buf holds every chunk
PublicDecode(resp, ty) ==
    IF resp.outcome = "error" \/ resp.failed
    THEN Panic("unwrap on an Err value: curl")
    ELSE LET buf == Flatten(resp.chunks) IN
         IF resp.status # 200
         THEN IF Utf8Valid(buf) THEN Err("Api", buf)
              ELSE Panic("unwrap on an Err value: FromUtf8Error")
         ELSE from_reader(buf, ty)

\* What the endpoint method does with the decoded value
Finish(fn, r) ==
    IF r.kind # "Ok" THEN r
    ELSE CASE fn = "post_order"   -> Ok(ObjId)
           [] fn = "cancel_order" ->
                IF Len(r.value) = 0
                THEN Panic("index out of bounds: the len is 0 but the index is 0")
                ELSE Ok(r.value[1])
           [] OTHER -> r

-----------------------------------------------------------------------------
(* The clients                                                             *)

\* Secrets a client may be built with: one that is base64 and two that are
\* not (a byte outside the alphabet, a length that is no multiple of four)
Secrets == { <<"c","2","V","j","Y","Q","=","=">>,
             <<"c","2","!","j">>, <<"c","2","V","j","c">> }

NoCall == [client |-> "none", fn |-> "none", args |-> <<>>, method |-> "",
           path |-> "", body |-> "", fields |-> <<>>,
           ty |-> [shape |-> "one", of |-> "obj"]]

One(of) == [shape |-> "one", of |-> of]
Vec(of) == [shape |-> "vec", of |-> of]

ClientIdle ==
    /\ pc = "idle"
    /\ UNCHANGED <<secret, now, input, decoded>>

\* The request handed to hyper before the headers are built, so that it
\* goes out even when building them fails
PrivateDispatchSendsFirst(fn, args, method, path, body, fields, ty) ==
    LET headers == get_headers(secret, now, path, body, method)
        url     == PRIVATE_API_URL \o path
    IN  /\ ClientIdle
        /\ call' = [client |-> "private", fn |-> fn, args |-> args,
                    method |-> Concat(method), path |-> path, body |-> body,
                    fields |-> fields, ty |-> ty]
        /\ response' = NoResponse
        /\ sent' = Append(sent, [method |-> Concat(method), url |-> url,
                                 headers |-> headers.value, body |-> body])
        /\ IF headers.kind # "Ok"
           THEN /\ result' = headers
                /\ pc' = "done"
           ELSE /\ result' = None
                /\ pc' = "waiting"

\* The headers signed for an empty body whatever body is sent
PrivateDispatchSignsEmptyBody(fn, args, method, path, body, fields, ty) ==
    LET headers == get_headers(secret, now, path, "", method)
        url     == PRIVATE_API_URL \o path
    IN  /\ ClientIdle
        /\ call' = [client |-> "private", fn |-> fn, args |-> args,
                    method |-> Concat(method), path |-> path, body |-> body,
                    fields |-> fields, ty |-> ty]
        /\ response' = NoResponse
        /\ IF headers.kind # "Ok"
           THEN /\ result' = headers
                /\ sent' = sent
                /\ pc' = "done"
           ELSE /\ result' = None
                /\ sent' = Append(sent, [method |-> Concat(method), url |-> url,
                                         headers |-> headers.value, body |-> body])
                /\ pc' = "waiting"

\* private get_and_decode / post_and_decode / delete_and_decode up to the
\* dispatch: the headers are built, then the request is handed to hyper.
\* The key, the passphrase and the paths drawn here are valid header values
\* and URIs, so HeaderValue::from_str, url.parse::<Uri>() and
\* req_builder.body(..) succeed.
PrivateDispatch(fn, args, method, path, body, fields, ty) ==
    LET headers == get_headers(secret, now, path, body, method)
        url     == PRIVATE_API_URL \o path
    IN  /\ ClientIdle
        /\ call' = [client |-> "private", fn |-> fn, args |-> args,
                    method |-> Concat(method), path |-> path, body |-> body,
                    fields |-> fields, ty |-> ty]
        /\ response' = NoResponse
        /\ IF headers.kind # "Ok"
           THEN /\ result' = headers
                /\ sent' = sent
                /\ pc' = "done"
           ELSE /\ result' = None
                /\ sent' = Append(sent, [method |-> Concat(method), url |-> url,
                                         headers |-> headers.value, body |-> body])
                /\ pc' = "waiting"

private_get_and_decode(fn, args, path, ty) ==
    PrivateDispatch(fn, args, GET, path, "", <<>>, ty)

private_post_and_decode(fn, args, path, body, fields, ty) ==
    PrivateDispatch(fn, args, POST, path, body, fields, ty)

private_delete_and_decode(fn, args, path, ty) ==
    PrivateDispatch(fn, args, DELETE, path, "", <<>>, ty)

get_accounts ==
    private_get_and_decode("get_accounts", <<>>, "/accounts", Vec("obj"))

get_account ==
    \E id \in Uuids :
        private_get_and_decode("get_account", <<id>>, "/accounts/" \o id, One("obj"))

get_account_history ==
    \E id \in Uuids :
        private_get_and_decode("get_account_history", <<id>>,
                               "/accounts/" \o id \o "/ledger", Vec("obj"))

get_account_holds ==
    \E id \in Uuids :
        private_get_and_decode("get_account_holds", <<id>>,
                               "/accounts/" \o id \o "/holds", Vec("obj"))

post_order ==
    \E order \in Orders :
        LET fields == SerializeNewOrder(order)
            body   == to_string(fields)
        IN  private_post_and_decode("post_order", <<order>>, "/orders", body,
                                    fields, One("obj"))

cancel_order ==
    \E order_id \in Uuids :
        private_delete_and_decode("cancel_order", <<order_id>>,
                                  "/orders/" \o order_id, Vec("id"))

cancel_all_orders ==
    \/ \E product_id \in Products :
          private_delete_and_decode("cancel_all_orders", <<product_id>>,
                                    "/orders?product_id=" \o product_id, Vec("id"))
    \/ private_delete_and_decode("cancel_all_orders", <<>>, "/orders", Vec("id"))

\* The terms collected and concatenated without the separator
StatusJoinNoSeparator(flags) ==
    LET terms    == <<"status=open", "status=pending", "status=active">>
        zipped   == [i \in 1..3 |-> <<flags[i], terms[i]>>]
        filtered == SelectSeq(zipped, LAMBDA p : p[1])
        mapped   == [i \in 1..Len(filtered) |-> filtered[i][2]]
    IN  Concat(mapped)

\* The status expression of get_orders_with_status: zip, filter, map, join
StatusQuery(flags) ==
    LET terms    == <<"status=open", "status=pending", "status=active">>
        zipped   == [i \in 1..3 |-> <<flags[i], terms[i]>>]
        filtered == SelectSeq(zipped, LAMBDA p : p[1])
        mapped   == [i \in 1..Len(filtered) |-> filtered[i][2]]
    IN  Concat(Join(mapped, "&"))

get_orders_with_status_path(open, pending, active) ==
    "/orders?" \o StatusQuery(<<open, pending, active>>)

get_orders_with_status ==
    \E open \in BOOLEAN, pending \in BOOLEAN, active \in BOOLEAN :
        private_get_and_decode("get_orders_with_status", <<open, pending, active>>,
                               get_orders_with_status_path(open, pending, active),
                               Vec("obj"))

get_orders ==
    private_get_and_decode("get_orders", <<>>,
                           get_orders_with_status_path(TRUE, TRUE, TRUE), Vec("obj"))

get_order ==
    \E order_id \in Uuids :
        private_get_and_decode("get_order", <<order_id>>,
                               "/orders/" \o order_id, One("obj"))

\* public get_and_decode up to t.perform(): the url and the user agent are
\* set and the transfer is started
public_get_and_decode(fn, args, url, ty) ==
    /\ ClientIdle
    /\ call' = [client |-> "public", fn |-> fn, args |-> args, method |-> "GET",
                path |-> url, body |-> "", fields |-> <<>>, ty |-> ty]
    /\ response' = NoResponse
    /\ result' = None
    /\ sent' = Append(sent, [method |-> "GET", url |-> url,
                             headers |-> [user_agent |-> "rust-gdax-client/1.2.0"],
                             body |-> ""])
    /\ pc' = "waiting"

\* Level::Best = 1, Level::Top50 = 2, Level::Full = 3
LevelBest  == 1
LevelTop50 == 2
LevelFull  == 3

get_products ==
    public_get_and_decode("get_products", <<>>, PUBLIC_API_URL \o "/products",
                          Vec("obj"))

BookUrl(product, level) ==
    PUBLIC_API_URL \o "/products/" \o product \o "/book?level=" \o ToString(level)

get_best_order ==
    \E product \in Products :
        public_get_and_decode("get_best_order", <<product>>,
                              BookUrl(product, LevelBest), One("obj"))

get_top50_orders ==
    \E product \in Products :
        public_get_and_decode("get_top50_orders", <<product>>,
                              BookUrl(product, LevelTop50), One("obj"))

get_full_book ==
    \E product \in Products :
        public_get_and_decode("get_full_book", <<product>>,
                              BookUrl(product, LevelFull), One("obj"))

get_product_ticker ==
    \E product \in Products :
        public_get_and_decode("get_product_ticker", <<product>>,
            PUBLIC_API_URL \o "/products/" \o product \o "/ticker", One("obj"))

get_trades ==
    \E product \in Products :
        public_get_and_decode("get_trades", <<product>>,
            PUBLIC_API_URL \o "/products/" \o product \o "/trades", Vec("obj"))

\* start and end as to_rfc3339_opts(SecondsFormat::Secs, true) renders them
Instants      == {"2018-01-01T00:00:00Z"}
Granularities == {60}

get_historic_rates ==
    \E product \in Products, start_time \in Instants, end_time \in Instants,
       granularity \in Granularities :
        public_get_and_decode("get_historic_rates",
            <<product, start_time, end_time, granularity>>,
            PUBLIC_API_URL \o "/products/" \o product \o "/candles?start="
                \o start_time \o "&end=" \o end_time \o "&granularity="
                \o ToString(granularity),
            Vec("obj"))

get_24hr_stats ==
    \E product \in Products :
        public_get_and_decode("get_24hr_stats", <<product>>,
            PUBLIC_API_URL \o "/products/" \o product \o "/stats", One("obj"))

get_currencies ==
    public_get_and_decode("get_currencies", <<>>, PUBLIC_API_URL \o "/currencies",
                          Vec("obj"))

get_time ==
    public_get_and_decode("get_time", <<>>, PUBLIC_API_URL \o "/time", One("obj"))

\* What the transport may answer
Responses ==
    {ConnectError}
    \cup {[outcome |-> "response", status |-> st, chunks |-> b.chunks, failed |-> b.failed]
             : st \in Statuses, b \in Streams}

\* The handler dispatching the request again when the transport failed
PrivateReceiveRetries ==
    /\ pc = "waiting"
    /\ call.client = "private"
    /\ \E resp \in Responses :
          /\ response' = resp
          /\ result' = Finish(call.fn, PrivateDecode(resp, call.ty))
          /\ sent' = IF resp.outcome = "error" THEN Append(sent, sent[1]) ELSE sent
    /\ pc' = "done"
    /\ UNCHANGED <<secret, now, call, input, decoded>>

\* The rest of the private handler, once hyper has answered or failed
PrivateReceive ==
    /\ pc = "waiting"
    /\ call.client = "private"
    /\ \E resp \in Responses :
          /\ response' = resp
          /\ result' = Finish(call.fn, PrivateDecode(resp, call.ty))
    /\ pc' = "done"
    /\ UNCHANGED <<secret, now, call, sent, input, decoded>>

\* The rest of the public handler, once curl has performed the transfer
PublicReceive ==
    /\ pc = "waiting"
    /\ call.client = "public"
    /\ \E resp \in Responses :
          /\ response' = resp
          /\ result' = PublicDecode(resp, call.ty)
    /\ pc' = "done"
    /\ UNCHANGED <<secret, now, call, sent, input, decoded>>

\* The caller has the result (or the panic has unwound); the client is free
Return ==
    /\ pc = "done"
    /\ pc' = "idle"
    /\ call' = NoCall
    /\ sent' = <<>>
    /\ response' = NoResponse
    /\ result' = None
    /\ UNCHANGED <<secret, now, input, decoded>>

\* Time passes between invocations
Tick ==
    /\ pc = "idle"
    /\ now < MaxTime
    /\ now' = now + 1
    /\ UNCHANGED <<secret, pc, call, sent, response, result, input, decoded>>

Init ==
    /\ secret \in Secrets
    /\ now = 0
    /\ pc = "idle"
    /\ call = NoCall
    /\ sent = <<>>
    /\ response = NoResponse
    /\ result = None
    /\ input = <<>>
    /\ decoded = NotDecoded

Next ==
    \/ get_accounts
    \/ get_account
    \/ get_account_history
    \/ get_account_holds
    \/ post_order
    \/ cancel_order
    \/ cancel_all_orders
    \/ get_orders_with_status
    \/ get_orders
    \/ get_order
    \/ get_products
    \/ get_best_order
    \/ get_top50_orders
    \/ get_full_book
    \/ get_product_ticker
    \/ get_trades
    \/ get_historic_rates
    \/ get_24hr_stats
    \/ get_currencies
    \/ get_time
    \/ PrivateReceive
    \/ PublicReceive
    \/ Return
    \/ Tick

Spec == Init /\ [][Next]_vars

-----------------------------------------------------------------------------
(* The enum decoders on their own: a JSON string is handed to one of them  *)

RECURSIVE CaseVariants(_)
\* Every spelling of w in upper and lower case letters
CaseVariants(w) ==
    IF w = <<>> THEN {<<>>}
    ELSE {<<c>> \o r : c \in {w[1], to_uppercase_char(w[1])},
                       r \in CaseVariants(Tail(w))}

Words == { <<"b","u","y">>, <<"s","e","l","l">>, <<"f","e","e">>,
           <<"m","a","t","c","h">>, <<"o","r","d","e","r">>,
           <<"t","r","a","n","s","f","e","r">>,
           <<"l","o","n","g">>, <<"b","u","y","s">>, <<"b","u","y","-","1">> }

\* The strings decoded: the words and their prefixes, in every letter case
DecoderInputs ==
    UNION {UNION {CaseVariants(SubSeq(w, 1, k)) : k \in 0..Len(w)} : w \in Words}

\* Side::deserialize on a JSON string: deserialize_identifier calls visit_str
DeserializeSide ==
    /\ decoded = NotDecoded
    /\ decoded' = <<"Side", SideVisitStr(input)>>
    /\ UNCHANGED <<secret, now, pc, call, sent, response, result, input>>

\* EntryType::deserialize on a JSON string
DeserializeEntryType ==
    /\ decoded = NotDecoded
    /\ decoded' = <<"EntryType", EntryTypeVisitStr(input)>>
    /\ UNCHANGED <<secret, now, pc, call, sent, response, result, input>>

\* HoldType::deserialize on a JSON string
DeserializeHoldType ==
    /\ decoded = NotDecoded
    /\ decoded' = <<"HoldType", HoldTypeVisitStr(input)>>
    /\ UNCHANGED <<secret, now, pc, call, sent, response, result, input>>

InitDecode ==
    /\ secret = <<"c","2","V","j","Y","Q","=","=">>
    /\ now = 0
    /\ pc = "idle"
    /\ call = NoCall
    /\ sent = <<>>
    /\ response = NoResponse
    /\ result = None
    /\ input \in DecoderInputs
    /\ decoded = NotDecoded

NextDecode ==
    \/ DeserializeSide
    \/ DeserializeEntryType
    \/ DeserializeHoldType

SpecDecode == InitDecode /\ [][NextDecode]_vars

-----------------------------------------------------------------------------
(* Properties                                                              *)

ErrorKinds == {"Api", "Hyper", "Http", "InvalidSecretKey", "Json"}

\* The response arrived whole: a head, every chunk of the body, no failure
ReceivedWhole ==
    /\ response.outcome = "response"
    /\ ~response.failed

\* C1: cancel_order answered with a success status and the empty JSON array
\* returns an error value to the caller; it does not abort with a panic.
C1_CancelOrderEmptyArrayReturnsError ==
    (/\ pc = "done"
     /\ call.fn = "cancel_order"
     /\ ReceivedWhole
     /\ response.status \in 200..299
     /\ response.chunks = << <<LB, RB>> >>)
    => result.kind \in ErrorKinds

\* The names each decoder maps its vocabulary to
Vocabulary(ty) ==
    CASE ty = "Side" ->
            { <<<<"b","u","y">>, "Buy">>, <<<<"s","e","l","l">>, "Sell">> }
      [] ty = "EntryType" ->
            { <<<<"f","e","e">>, "Fee">>, <<<<"m","a","t","c","h">>, "Match">>,
              <<<<"t","r","a","n","s","f","e","r">>, "Transfer">> }
      [] ty = "HoldType" ->
            { <<<<"o","r","d","e","r">>, "Order">>,
              <<<<"t","r","a","n","s","f","e","r">>, "Transfer">> }

\* C2: each of the Side, EntryType and HoldType decoders maps every letter
\* case variant of a word of its vocabulary to that word's value, and
\* returns an invalid-value decode error, as a value, for any other string.
C2_DecodersAcceptVocabularyElseDecodeError ==
    decoded # NotDecoded =>
        LET l == to_lowercase(input)
            v == Vocabulary(decoded[1])
        IN  IF \E e \in v : e[1] = l
            THEN \E e \in v : e[1] = l /\ decoded[2] = Ok(e[2])
            ELSE decoded[2].kind = "Json"

\* C3: the encoded object of every order has a member named "type" whose
\* value is "limit", "market" or "stop", after the order's variant.
C3_EncodedOrderHasTypeDiscriminant ==
    call.fn = "post_order" =>
        LET literal == CASE call.args[1].variant = "Limit"  -> "limit"
                         [] call.args[1].variant = "Market" -> "market"
                         [] call.args[1].variant = "Stop"   -> "stop"
        IN  \E i \in 1..Len(call.fields) :
                call.fields[i] = <<"type", [t |-> "str", v |-> literal]>>

\* C4: in both clients a response that arrived whole becomes an ApiError if
\* and only if its status is outside 200..299.
C4_ApiErrorIffStatusOutside2xx ==
    (/\ pc = "done"
     /\ ReceivedWhole
     /\ Utf8Valid(Flatten(response.chunks)))
    => (result.kind = "Api" <=> response.status \notin 200..299)

\* C5: for a response outside 2xx whose body text arrived whole, the
\* authenticated get/post/delete return Error::Api with the whole body text
\* as the message.
C5_ApiErrorMessageIsWholeBody ==
    (/\ pc = "done"
     /\ call.client = "private"
     /\ ReceivedWhole
     /\ response.status \notin 200..299
     /\ Utf8Valid(Flatten(response.chunks)))
    => result = [kind |-> "Api", value |-> Flatten(response.chunks)]

\* C6: when the connection failed, or receiving the body failed, the call
\* returns an error value of the transport kind.
C6_TransportFailureReturnsTransportError ==
    (/\ pc = "done"
     /\ (response.outcome = "error" \/ response.failed))
    => result.kind = "Hyper"

\* The query string the flags (open, pending, active) stand for
QueryTable(flags) ==
    CASE flags = <<FALSE, FALSE, FALSE>> -> ""
      [] flags = <<TRUE,  FALSE, FALSE>> -> "status=open"
      [] flags = <<FALSE, TRUE,  FALSE>> -> "status=pending"
      [] flags = <<FALSE, FALSE, TRUE>>  -> "status=active"
      [] flags = <<TRUE,  TRUE,  FALSE>> -> "status=open&status=pending"
      [] flags = <<TRUE,  FALSE, TRUE>>  -> "status=open&status=active"
      [] flags = <<FALSE, TRUE,  TRUE>>  -> "status=pending&status=active"
      [] flags = <<TRUE,  TRUE,  TRUE>>  ->
            "status=open&status=pending&status=active"

\* C7: get_orders_with_status asks for /orders? followed by the '&'-join,
\* in the order open, pending, active, of the status= terms of the flags
\* that are set; with a usable secret the request is sent for every one of
\* the 8 combinations, the all-false one (empty query string) included.
C7_StatusQueryIsJoinOfSetFlags ==
    call.fn = "get_orders_with_status" =>
        /\ call.path = "/orders?" \o QueryTable(call.args)
        /\ secret = <<"c","2","V","j","Y","Q","=","=">> =>
              /\ Len(sent) = 1
              /\ sent[1].method = "GET"
              /\ sent[1].url = "https://api.gdax.com/orders?" \o QueryTable(call.args)

C7_Witness ==
    /\ call.fn = "get_orders_with_status"
    /\ call.args = <<FALSE, TRUE, TRUE>>
    /\ pc = "waiting"
    /\ Len(sent) = 1
    /\ sent[1].url = "https://api.gdax.com/orders?status=pending&status=active"

\* C8: the limit order built from (Buy, "BTC-USD", size 1.0, price 100.0)
\* encodes to exactly the members type "limit", side "buy", product_id
\* "BTC-USD", price 100.0 and size 1.0.
C8_LimitOrderExampleEncoding ==
    (/\ call.fn = "post_order"
     /\ call.args[1].variant = "Limit"
     /\ call.args[1] = [variant |-> "Limit", side |-> "Buy", product_id |-> "BTC-USD",
                        price |-> 100, size |-> 1])
    => /\ Len(call.fields) = 5
       /\ {call.fields[i] : i \in 1..5} =
            { <<"type", [t |-> "str", v |-> "limit"]>>,
              <<"side", [t |-> "str", v |-> "buy"]>>,
              <<"product_id", [t |-> "str", v |-> "BTC-USD"]>>,
              <<"price", [t |-> "num", v |-> "100.0"]>>,
              <<"size", [t |-> "num", v |-> "1.0"]>> }

\* The positions of the members named key
MembersNamed(fields, key) == {i \in 1..Len(fields) : fields[i][1] = key}

\* C9: the encoded object of a Market or Stop order has exactly one of the
\* members size and funds: size, with the amount, for Size(x); funds, with
\* the amount, for Funds(x); the other key does not occur.
C9_ExactlyOneOfSizeAndFunds ==
    (call.fn = "post_order" /\ call.args[1].variant \in {"Market", "Stop"}) =>
        LET sf      == call.args[1].size_or_funds
            present == IF sf.tag = "Size" THEN "size" ELSE "funds"
            absent  == IF sf.tag = "Size" THEN "funds" ELSE "size"
        IN  /\ Cardinality(MembersNamed(call.fields, present)) = 1
            /\ MembersNamed(call.fields, absent) = {}
            /\ \A i \in MembersNamed(call.fields, present) :
                  call.fields[i][2] = [t |-> "num", v |-> ToString(sf.amount) \o ".0"]

C9_Witness ==
    /\ call.fn = "post_order"
    /\ call.args[1].variant = "Market"
    /\ call.args[1].size_or_funds.tag = "Funds"
    /\ MembersNamed(call.fields, "funds") # {}

\* C10: every authenticated operation on a client whose secret is not
\* base64 ends with Error::InvalidSecretKey.
C10_BadSecretGivesInvalidSecretKey ==
    (/\ call.client = "private"
     /\ secret \in { <<"c","2","!","j">>, <<"c","2","V","j","c">> })
    => /\ pc = "done"
       /\ result = [kind |-> "InvalidSecretKey", value |-> <<>>]

C10_Witness ==
    /\ call.fn = "cancel_order"
    /\ secret = <<"c","2","!","j">>
    /\ pc = "done"
    /\ result.kind = "InvalidSecretKey"

\* The bytes of the secret c2VjYQ==
SecretKeyBytes == <<115, 101, 99, 97>>

\* A request of the authenticated client has been dispatched
PrivateSent == call.client = "private" /\ Len(sent) >= 1

\* C11: the MAC is keyed with the base64-decoded secret and taken over the
\* decimal timestamp, the upper-case method name, the path with its query
\* string and the body (nothing for GET and DELETE), concatenated in this
\* order without separators; the signature is the base64 of that MAC.
C11_SigningMessageAndKey ==
    PrivateSent =>
        LET bodyPart == IF call.method = "POST" THEN call.body ELSE ""
        IN  /\ call.method \in {"GET", "POST", "DELETE"}
            /\ sent[1].headers.sign =
                 [base64 |-> [key  |-> SecretKeyBytes,
                              what |-> ToString(now) \o call.method \o call.path
                                       \o bodyPart]]

C11_Witness ==
    /\ PrivateSent
    /\ call.fn = "get_orders_with_status"
    /\ call.args = <<TRUE, FALSE, TRUE>>
    /\ now = 1
    /\ sent[1].headers.sign.base64.what = "1GET/orders?status=open&status=active"

\* C12: the CB-ACCESS-TIMESTAMP value of a request is the very string that
\* opens the signing message of its CB-ACCESS-SIGN.
C12_TimestampHeaderIsSignedTimestamp ==
    PrivateSent =>
        sent[1].headers.sign.base64.what =
            sent[1].headers.timestamp \o sent[1].method \o call.path \o sent[1].body

C12_Witness ==
    /\ PrivateSent
    /\ now = 1
    /\ sent[1].headers.timestamp = "1"
    /\ call.fn = "get_accounts"
    /\ sent[1].headers.sign.base64.what = "1GET/accounts"

\* C13: the text that is parsed as JSON, or wrapped in the ApiError, is the
\* concatenation of all the chunks of the body.
C13_WholeBodyIsDecoded ==
    (/\ pc = "done"
     /\ ReceivedWhole
     /\ Utf8Valid(Flatten(response.chunks)))
    => IF result.kind = "Api"
       THEN result.value = Flatten(response.chunks)
       ELSE result = Finish(call.fn, from_reader(Flatten(response.chunks), call.ty))

\* C14: an invocation hands at most one request to the transport, whatever
\* its outcome (a transport failure, an API error, a decode error).
C14_AtMostOneRequestPerInvocation ==
    /\ Len(sent) <= 1
    /\ pc = "idle" => sent = <<>>

C14_Witness ==
    /\ pc = "done"
    /\ call.fn = "post_order"
    /\ result.kind = "Hyper"
    /\ Len(sent) = 1

\* C15: what is sent is what was signed: the url is the base URL followed by
\* the signed path, the method and the body are the signed ones, the body is
\* empty for GET and DELETE and the encoded order for POST.
C15_SignedRequestIsSentRequest ==
    PrivateSent =>
        /\ sent[1].url = "https://api.gdax.com" \o call.path
        /\ sent[1].method = call.method
        /\ sent[1].body = (IF call.fn = "post_order"
                           THEN to_string(SerializeNewOrder(call.args[1]))
                           ELSE "")
        /\ (call.fn = "post_order") = (call.method = "POST")
        /\ \E ts \in {ToString(t) : t \in 0..now} :
              sent[1].headers.sign.base64.what =
                  ts \o sent[1].method \o call.path \o sent[1].body

C15_Witness ==
    /\ PrivateSent
    /\ call.fn = "post_order"
    /\ call.args[1].variant = "Stop"
    /\ sent[1].method = "POST"
    /\ sent[1].body = call.body
    /\ call.body # ""

\* C16: an invocation that ends with InvalidSecretKey has handed no request
\* to the transport and has had no response.
C16_InvalidSecretKeySendsNothing ==
    result.kind = "InvalidSecretKey" =>
        /\ sent = <<>>
        /\ response = NoResponse

C16_Witness ==
    /\ pc = "done"
    /\ call.fn = "get_order"
    /\ result.kind = "InvalidSecretKey"
    /\ sent = <<>>

====
